---- MODULE Spec2Model ----
(***************************************************************************)
(* Acquisition functions (deepsensor/active_learning/acquisition_fns.py)   *)
(* and ConvNP.ar_sample / check_task / modify_task                         *)
(* (deepsensor/model/models.py), and the defaults a ConvNP takes from a    *)
(* task loader (deepsensor/model/defaults.py).                             *)
(*                                                                         *)
(* Python objects live in a heap (a sequence of task objects, a reference  *)
(* is an index), so that copy.deepcopy and aliasing are distinguishable.   *)
(* The caller's task is always reference 1.  Every call is one action; the *)
(* heap it builds is local to the call and only the caller's object is     *)
(* kept in the state afterwards.                                           *)
(*                                                                         *)
(* Arrays are records [rows, batch, mask]: rows is the 2-D content (a      *)
(* coordinate matrix has two rows x1, x2; a value matrix one row), batch   *)
(* says whether the array has been converted to a model-native tensor with *)
(* a leading batch dimension, mask is the NaN mask of an nps.Masked tensor *)
(* (<<>> when the array is not masked).                                    *)
(*                                                                         *)
(* Python indices are 0-based: index i reads element i + 1 of a sequence.  *)
(***************************************************************************)
EXTENDS Integers, Sequences, FiniteSets, TLC

VARIABLES task, acq, ar, rngs, conv

vars == <<task, acq, ar, rngs, conv>>

------------------------------------------------------------------------------
(* Bounds *)

MaxGrid == 3
MaxContext == 2
MaxCand == 2
MaxSamples == 2
MaxFactor == 3
MaxIdx == 1
MaxSeed == 2
MaxCalls == 2
MaxVars == 1

------------------------------------------------------------------------------
(* Values *)

\* stands for a floating-point NaN entry; every real entry is >= 0
NaN == 0 - 1
None == <<>>
NoTag == "None"
NoErr == "ok"

Range(s) == {s[i] : i \in DOMAIN s}

\* Only({e(x) : x \in {v}}) is e(v) with v evaluated once
Only(S) == CHOOSE x \in S : TRUE

Isqrt(n) == CHOOSE m \in 0..n : m * m <= n /\ n < (m + 1) * (m + 1)

CeilDiv(a, b) == (a + b - 1) \div b

------------------------------------------------------------------------------
(* Arrays *)

ndarray(rows) == [rows |-> rows, batch |-> FALSE, mask |-> <<>>]

NRows(a) == Len(a.rows)

\* arr.shape[-1]
NCols(a) == Len(a.rows[1])

\* arr.size
Size(a) == NRows(a) * NCols(a)

Col(a, j) == [i \in 1..NRows(a) |-> a.rows[i][j]]

Cols(a) == {Col(a, j) : j \in 1..NCols(a)}

\* columns of a at the (1-based) positions listed in pos, in that order
Take(a, pos) ==
    [a EXCEPT !.rows = [i \in 1..NRows(a) |->
                           [q \in 1..Len(pos) |-> a.rows[i][pos[q]]]]]

\* np.concatenate([a, b], axis=-1) needs arrays of the same number of
\* dimensions that agree on every axis but the last
ConcatFails(a, b) == a.batch # b.batch \/ NRows(a) # NRows(b)

Concat(a, b) ==
    [rows |-> [i \in 1..NRows(a) |-> a.rows[i] \o b.rows[i]],
     batch |-> a.batch, mask |-> <<>>]

------------------------------------------------------------------------------
(* Tasks and the heap *)

Task(X_c, Y_c, X_t, modify) ==
    [X_c |-> X_c, Y_c |-> Y_c, X_t |-> X_t, modify |-> modify]

\* copy.deepcopy(task): a new object with equal contents
deepcopy_alias(h, r) == [heap |-> h, ref |-> r]

deepcopy(h, r) == [heap |-> Append(h, h[r]), ref |-> Len(h) + 1]

\* task["X_t"][0] = X
SetXt0_caller(h, r, X) == [h EXCEPT ![1].X_t[1] = X]

SetXt0(h, r, X) == [h EXCEPT ![r].X_t[1] = X]

\* array_modify_fn of ConvNP.modify_task.  arr[np.newaxis, ...] has shape
\* (1, d, N); mask = any(isnan, axis=1) has shape (1, N); arr[mask] = 0.0 is
\* a boolean index over the leading (1, d) dimensions: it raises IndexError
\* unless d = N and then zeroes row n for every masked n.
array_modify_fn(arr) ==
    LET d == NRows(arr)
        n == NCols(arr)
        mask == [j \in 1..n |-> \E i \in 1..d : arr.rows[i][j] = NaN]
        anymask == \E j \in 1..n : mask[j]
    IN  IF anymask /\ d # n
        THEN [err |-> "IndexError", arr |-> arr]
        ELSE [err |-> NoErr,
              arr |-> [rows |-> [i \in 1..d |->
                                   IF anymask /\ mask[i]
                                   THEN [j \in 1..n |-> 0]
                                   ELSE arr.rows[i]],
                       batch |-> TRUE,
                       mask |-> IF anymask THEN mask ELSE <<>>]]

\* Task.modify(f, modify_flag): the arrays of a deep copy of the task are
\* replaced by f's results (applied holds f(arr) for every array of the
\* task), the copy is tagged with modify_flag and returned
Task_modify(h, r, applied, modify_flag) ==
    LET failed == \/ \E i \in DOMAIN applied.X_c : applied.X_c[i].err # NoErr
                  \/ \E i \in DOMAIN applied.Y_c : applied.Y_c[i].err # NoErr
                  \/ \E i \in DOMAIN applied.X_t : applied.X_t[i].err # NoErr
        new == Task([i \in DOMAIN applied.X_c |-> applied.X_c[i].arr],
                    [i \in DOMAIN applied.Y_c |-> applied.Y_c[i].arr],
                    [i \in DOMAIN applied.X_t |-> applied.X_t[i].arr],
                    modify_flag)
    IN  IF failed
        THEN [heap |-> h, ref |-> r, err |-> "IndexError"]
        ELSE [heap |-> Append(h, new), ref |-> Len(h) + 1, err |-> NoErr]

\* task.modify(array_modify_fn, modify_flag="NPS")
modify_task(h, r) ==
    LET t == h[r]
    IN  Task_modify(h, r,
                    [X_c |-> [i \in DOMAIN t.X_c |-> array_modify_fn(t.X_c[i])],
                     Y_c |-> [i \in DOMAIN t.Y_c |-> array_modify_fn(t.Y_c[i])],
                     X_t |-> [i \in DOMAIN t.X_t |-> array_modify_fn(t.X_t[i])]],
                    "NPS")

\* check_task without the tag test
check_task_retransform(h, r) == modify_task(h, r)

check_task(h, r) ==
    IF h[r].modify = NoTag
    THEN modify_task(h, r)
    ELSE IF h[r].modify # "NPS"
         THEN [heap |-> h, ref |-> r, err |-> "ValueError"]
         ELSE [heap |-> h, ref |-> r, err |-> NoErr]

------------------------------------------------------------------------------
(* The model: every run of the neural process is logged as a query *)

\* one run of the underlying neural process: arg is the task as handed to
\* the model method, task the model-native task that reaches the run
Query(fn, arg, t, n_samples) ==
    [fn |-> fn, arg |-> arg, task |-> t, n_samples |-> n_samples]

\* a statistic of the predictive distribution of query q at target column j
Stat(stat, q, j, x) == [stat |-> stat, q |-> q, j |-> j, x |-> x]

NoStat == Stat("none", 0, 0, <<>>)

\* ConvNP.__call__(task, n_samples=10): a result with the heap, the error
\* and the queries made (qs is the log so far)
ConvNP_call(h, r, qs, n_samples) ==
    Only({IF ck.err # NoErr
          THEN [heap |-> h, err |-> ck.err, queries |-> qs, q |-> 0, n |-> 0]
          ELSE [heap |-> ck.heap, err |-> NoErr,
                queries |-> Append(qs, Query("run_nps_model", h[r],
                                             ck.heap[ck.ref], n_samples)),
                q |-> Len(qs) + 1,
                n |-> NCols(ck.heap[ck.ref].X_t[1])] :
          ck \in {check_task(h, r)}})

\* a length-N vector of one statistic over the target columns of the query
StatVector(stat, c) ==
    LET X == c.queries[c.q].task.X_t[1]
    IN  [j \in 1..c.n |-> Stat(stat, c.q, j, Col(X, j))]

\* the result of a model method: vec is what it returns
ModelResult(c, vec, shape) ==
    [heap |-> c.heap, err |-> c.err, queries |-> c.queries,
     vec |-> vec, shape |-> shape]

\* ConvNP.variance(task) = self(task).var.numpy()[0, 0, 0], shape (N,)
ConvNP_variance(h, r, qs) ==
    Only({IF c.err # NoErr THEN ModelResult(c, <<>>, <<>>)
          ELSE ModelResult(c, StatVector("variance", c), <<c.n>>) :
          c \in {ConvNP_call(h, r, qs, 10)}})

\* ProbabilisticModel.stddev(task) = variance(task) ** 0.5
ProbabilisticModel_stddev(h, r, qs) ==
    Only({[v EXCEPT !.vec = [j \in DOMAIN v.vec |->
                                [v.vec[j] EXCEPT !.stat = "stddev"]]] :
          v \in {ConvNP_variance(h, r, qs)}})

\* ConvNP.predict(task) = self(task).mean.numpy()[0, 0, 0], shape (N,)
ConvNP_predict(h, r, qs) ==
    Only({IF c.err # NoErr THEN ModelResult(c, <<>>, <<>>)
          ELSE ModelResult(c, StatVector("mean", c), <<c.n>>) :
          c \in {ConvNP_call(h, r, qs, 10)}})

\* model.mean(task): the predictive mean over the target columns
model_mean(h, r, qs) == ConvNP_predict(h, r, qs)

\* ConvNP.sample(task, n_samples) = ...sample(n_samples).numpy()[:, 0, 0, 0],
\* shape (n_samples, N)
ConvNP_sample(h, r, qs, n_samples) ==
    Only({IF c.err # NoErr THEN ModelResult(c, <<>>, <<>>)
          ELSE ModelResult(c, StatVector("sample", c), <<n_samples, c.n>>) :
          c \in {ConvNP_call(h, r, qs, 10)}})

\* model.mean_marginal_entropy(task), model.joint_entropy(task): scalars
model_entropy(stat, h, r, qs) ==
    Only({IF c.err # NoErr THEN ModelResult(c, <<>>, <<>>)
          ELSE ModelResult(c, <<Stat(stat, c.q, 0, <<>>)>>, <<>>) :
          c \in {ConvNP_call(h, r, qs, 10)}})

------------------------------------------------------------------------------
(* Acquisition functions *)

\* the outcome of one acquisition-function call: out holds numeric scores,
\* sym scores that are statistics of the model, ei the operands of an
\* expected-improvement score; shape is the shape of the returned value
\* (<<>> for a single number, <<n>> for a vector of n scores)
NoEI == [mean |-> NoStat, best |-> 0, stddev |-> NoStat]

AcqResult(h, err, queries, shape, out, sym, ei) ==
    [heap |-> h, err |-> err, queries |-> queries, shape |-> shape,
     out |-> out, sym |-> sym, ei |-> ei]

AcqError(h, err, queries) == AcqResult(h, err, queries, <<>>, <<>>, <<>>, NoEI)

\* vec[idx] on a model result followed by a reduction to one number
IndexScalar(result, idx) ==
    Only({IF m.err # NoErr THEN AcqError(m.heap, m.err, m.queries)
          ELSE IF idx + 1 > Len(m.vec)
               THEN AcqError(m.heap, "IndexError", m.queries)
               ELSE AcqResult(m.heap, NoErr, m.queries, <<>>, <<>>,
                              <<m.vec[idx + 1]>>, NoEI) :
          m \in {result}})

\* np.mean(self.model.stddev(task)[target_set_idx])
MeanStddev(h, r, target_set_idx) ==
    IndexScalar(ProbabilisticModel_stddev(h, r, <<>>), target_set_idx)

\* np.mean(self.model.variance(task)[target_set_idx])
MeanVariance(h, r, target_set_idx) ==
    IndexScalar(ConvNP_variance(h, r, <<>>), target_set_idx)

\* orders np.linalg.norm accepts for a vector; any other string raises
VectorOrders == {"1", "2", "inf"}

\* pNormStddev(model, p=p)(task, target_set_idx): the constructor stores p,
\* np.linalg.norm(stddev(task)[target_set_idx].ravel(), ord=p) reads it
pNormStddev(p, h, r, target_set_idx) ==
    Only({IF s.err # NoErr THEN s
          ELSE IF p \notin VectorOrders
               THEN AcqError(s.heap, "ValueError", s.queries)
               ELSE s :
          s \in {IndexScalar(ProbabilisticModel_stddev(h, r, <<>>),
                             target_set_idx)}})

MeanMarginalEntropy(h, r) ==
    Only({IF m.err # NoErr THEN AcqError(m.heap, m.err, m.queries)
          ELSE AcqResult(m.heap, NoErr, m.queries, <<>>, <<>>, m.vec, NoEI) :
          m \in {model_entropy("mean_marginal_entropy", h, r, <<>>)}})

JointEntropy(h, r) ==
    Only({IF m.err # NoErr THEN AcqError(m.heap, m.err, m.queries)
          ELSE AcqResult(m.heap, NoErr, m.queries, <<>>, <<>>, m.vec, NoEI) :
          m \in {model_entropy("joint_entropy", h, r, <<>>)}})

\* np.random.default_rng(seed): the generator's state is a function of the
\* seed alone
default_rng(seed) == (7 * seed + 1) % 16

\* one step of the generator
rng_step(state) == (5 * state + 3) % 16

\* rng.random(n): n successive draws; <<the draws, the state afterwards>>
RECURSIVE rng_random(_, _)
rng_random(state, n) ==
    IF n = 0 THEN [draws |-> <<>>, state |-> state]
    ELSE Only({[draws |-> <<rng_step(state)>> \o rest.draws,
                state |-> rest.state] :
               rest \in {rng_random(rng_step(state), n - 1)}})

\* Random.__call__(task, X_s) on a generator in the given state
Random_call_coords(state, t, X_s) ==
    Only({[d EXCEPT !.draws = [j \in DOMAIN d.draws |->
                                 (d.draws[j] + X_s.rows[1][j]) % 16]] :
          d \in {rng_random(state, NCols(X_s))}})

Random_call(state, t, X_s) == rng_random(state, NCols(X_s))

\* squared Euclidean distance of two columns
SqDist(a, b) ==
    (a[1] - b[1]) * (a[1] - b[1]) + (a[2] - b[2]) * (a[2] - b[2])

\* the largest element instead of the smallest
Max(S) == CHOOSE x \in S : \A y \in S : x >= y

Min(S) == CHOOSE x \in S : \A y \in S : x <= y

\* ContextDist(context_set_idx)(task, X_s).  A non-empty-context score is
\* the square root of the stored number (the norm's radicand); 0 and 1 are
\* their own roots.
ContextDist_all_zero(context_set_idx, h, r, X_s) ==
    AcqResult(h, NoErr, <<>>, <<NCols(X_s)>>,
              [j \in 1..NCols(X_s) |-> 0], <<>>, NoEI)

ContextDist(context_set_idx, h, r, X_s) ==
    IF context_set_idx + 1 > Len(h[r].X_c) THEN AcqError(h, "IndexError", <<>>)
    ELSE
    LET X_c == h[r].X_c[context_set_idx + 1]
        n == NCols(X_s)
    IN  IF Size(X_c) = 0
        THEN IF n = 0 THEN AcqError(h, "IndexError", <<>>)
             ELSE AcqResult(h, NoErr, <<>>, <<n>>,
                            [j \in 1..n |-> IF j = 1 THEN 1 ELSE 0],
                            <<>>, NoEI)
        ELSE AcqResult(h, NoErr, <<>>, <<n>>,
                       [j \in 1..n |->
                          Min({SqDist(Col(X_s, j), Col(X_c, c)) :
                                 c \in 1..NCols(X_c)})],
                       <<>>, NoEI)

\* task = copy.deepcopy(task); task["X_t"] = X_s
WithTarget(h, r, X_s) ==
    Only({[heap |-> [c.heap EXCEPT ![c.ref].X_t = <<X_s>>], ref |-> c.ref] :
          c \in {deepcopy(h, r)}})

\* Stddev(task, X_s, target_set_idx)
Stddev(h, r, X_s, target_set_idx) ==
    Only({IndexScalar(ProbabilisticModel_stddev(c.heap, c.ref, <<>>),
                      target_set_idx) :
          c \in {WithTarget(h, r, X_s)}})

\* arr.max(): NaN propagates
ArrMax(a) ==
    LET S == UNION {Range(a.rows[i]) : i \in 1..NRows(a)}
    IN  IF NaN \in S THEN NaN ELSE CHOOSE x \in S : \A y \in S : y <= x

\* ExpectedImprovement(model, context_set_idx)(task, X_s, target_set_idx):
\* ei = stddev * (mean - best) * cdf(Z) + stddev * pdf(Z) with
\* Z = (mean - best) / stddev, kept as its three operands
ExpectedImprovement(context_set_idx, h, r, X_s, target_set_idx) ==
    Only({
      Only({
        IF mean.err # NoErr THEN mean
        ELSE IF context_set_idx + 1 > Len(mean.heap[c.ref].Y_c)
        THEN AcqError(mean.heap, "IndexError", mean.queries)
        ELSE IF Size(mean.heap[c.ref].Y_c[context_set_idx + 1]) = 0
        THEN AcqError(mean.heap, "ValueError", mean.queries)
        ELSE Only({
          IF stddev.err # NoErr THEN stddev
          ELSE AcqResult(stddev.heap, NoErr, stddev.queries, <<>>, <<>>, <<>>,
                 [mean |-> mean.sym[1],
                  best |-> ArrMax(mean.heap[c.ref].Y_c[context_set_idx + 1]),
                  stddev |-> stddev.sym[1]]) :
          stddev \in {IndexScalar(
                        ProbabilisticModel_stddev(mean.heap, c.ref,
                                                  mean.queries),
                        context_set_idx)}}) :
        mean \in {IndexScalar(model_mean(c.heap, c.ref, <<>>),
                              target_set_idx)}}) :
      c \in {WithTarget(h, r, X_s)}})

------------------------------------------------------------------------------
(* ConvNP.ar_sample *)

Positions(n) == [p \in 1..n |-> p]

\* the subsampling of xt = task["X_t"][0] by ar_subsample_factor: on a
\* perfect square, xt.reshape(-1, M, M)[..., ::k, ::k].reshape(2, -1);
\* otherwise xt[..., ::k]
Subsample_flat(xt, k) ==
    Take(xt, SelectSeq(Positions(NCols(xt)), LAMBDA p : (p - 1) % k = 0))

Subsample(xt, k) ==
    LET n == NCols(xt)
        M == Isqrt(n)
    IN  IF M * M = n
        THEN [Take(xt, SelectSeq(Positions(n),
                                 LAMBDA p : /\ ((p - 1) \div M) % k = 0
                                            /\ ((p - 1) % M) % k = 0))
                EXCEPT !.batch = FALSE]
        ELSE Take(xt, SelectSeq(Positions(n), LAMBDA p : (p - 1) % k = 0))

\* the value the model draws for path i (0-based) at AR column j
SampleValue(i, j) == 100 * (i + 1) + j

\* noiseless_samples[i]: one path of run_nps_model_ar, shape (1, 1, N_AR)
SamplePath(i, n) ==
    [rows |-> <<[j \in 1..n |-> SampleValue(i, j)]>>, batch |-> TRUE,
     mask |-> <<>>]

\* whether the infill branch is taken
NeedsInfill(X_target_AR, ar_subsample_factor) ==
    ar_subsample_factor > 1 \/ X_target_AR # None

\* one infilled path: self.predict gives shape (N,), self.sample with
\* n_samples=1 gives shape (1, N)
InfillPred(cls, h, r, qs) ==
    IF cls = "ConvCNP"
    THEN ConvNP_predict(h, r, qs)
    ELSE ConvNP_sample(h, r, qs, 1)

\* an infill loop that extends the previous path's task instead of task
RECURSIVE InfillLoop_accumulate(_, _, _, _, _, _, _)
InfillLoop_accumulate(cls, h, rt, ra, n_samples, i, qs) ==
    IF i >= n_samples
    THEN [heap |-> h, err |-> NoErr, queries |-> qs, preds |-> <<>>]
    ELSE Only({
      IF \/ ConcatFails(c.heap[rt].X_c[1], c.heap[ra].X_t[1])
         \/ ConcatFails(c.heap[rt].Y_c[1],
                        SamplePath(i, NCols(c.heap[ra].X_t[1])))
      THEN [heap |-> c.heap, err |-> "ValueError", queries |-> qs,
            preds |-> <<>>]
      ELSE Only({
        IF pred.err # NoErr
        THEN [heap |-> pred.heap, err |-> pred.err, queries |-> pred.queries,
              preds |-> <<>>]
        ELSE Only({[rest EXCEPT !.preds = <<pred>> \o @] :
                   rest \in {InfillLoop_accumulate(cls, pred.heap, c.ref, ra, n_samples,
                                        i + 1, pred.queries)}}) :
        pred \in {InfillPred(cls,
                    [c.heap EXCEPT
                       ![c.ref].X_c[1] =
                           Concat(c.heap[rt].X_c[1], c.heap[ra].X_t[1]),
                       ![c.ref].Y_c[1] =
                           Concat(c.heap[rt].Y_c[1],
                                  SamplePath(i, NCols(c.heap[ra].X_t[1])))],
                    c.ref, qs)}}) :
      c \in {deepcopy(h, rt)}})

\* the infill loop from path i on: rt is task, ra is task_arsample
RECURSIVE InfillLoop(_, _, _, _, _, _, _)
InfillLoop(cls, h, rt, ra, n_samples, i, qs) ==
    IF i >= n_samples
    THEN [heap |-> h, err |-> NoErr, queries |-> qs, preds |-> <<>>]
    ELSE Only({
      IF \/ ConcatFails(c.heap[rt].X_c[1], c.heap[ra].X_t[1])
         \/ ConcatFails(c.heap[rt].Y_c[1],
                        SamplePath(i, NCols(c.heap[ra].X_t[1])))
      THEN [heap |-> c.heap, err |-> "ValueError", queries |-> qs,
            preds |-> <<>>]
      ELSE Only({
        IF pred.err # NoErr
        THEN [heap |-> pred.heap, err |-> pred.err, queries |-> pred.queries,
              preds |-> <<>>]
        ELSE Only({[rest EXCEPT !.preds = <<pred>> \o @] :
                   rest \in {InfillLoop(cls, pred.heap, rt, ra, n_samples,
                                        i + 1, pred.queries)}}) :
        pred \in {InfillPred(cls,
                    [c.heap EXCEPT
                       ![c.ref].X_c[1] =
                           Concat(c.heap[rt].X_c[1], c.heap[ra].X_t[1]),
                       ![c.ref].Y_c[1] =
                           Concat(c.heap[rt].Y_c[1],
                                  SamplePath(i, NCols(c.heap[ra].X_t[1])))],
                    c.ref, qs)}}) :
      c \in {deepcopy(h, rt)}})

ArResult(h, err, queries, shape, infill, arX, out) ==
    [heap |-> h, err |-> err, queries |-> queries, shape |-> shape,
     infill |-> infill, arX |-> arX, out |-> out]

\* the AR target locations: X_target_AR, else the subsampled target set,
\* else the target set itself
ArTargets(xt, X_target_AR, ar_subsample_factor) ==
    IF X_target_AR # None THEN X_target_AR
    ELSE IF ar_subsample_factor > 1
         THEN Subsample(xt, ar_subsample_factor)
         ELSE xt

\* task_arsample = copy.deepcopy(task) with X_t[0] replaced when the AR
\* targets are a restriction
ArTask(h, X_target_AR, ar_subsample_factor) ==
    Only({[heap |-> IF X_target_AR # None \/ ar_subsample_factor > 1
                    THEN SetXt0(c.heap, c.ref,
                                ArTargets(h[1].X_t[1], X_target_AR,
                                          ar_subsample_factor))
                    ELSE c.heap,
           ref |-> c.ref] :
          c \in {deepcopy(h, 1)}})

\* the body of ar_sample after both check_task calls: ra is task_arsample,
\* rt is task, arX the AR locations
ArDraw(cls, h, rt, ra, n_samples, infill, arX) ==
    Only({
      IF infill
      THEN Only({
             IF loop.err # NoErr
             THEN ArResult(loop.heap, loop.err, loop.queries, <<>>, TRUE,
                           arX, <<>>)
             ELSE IF loop.preds = <<>>
             THEN ArResult(loop.heap, "ValueError", loop.queries, <<>>, TRUE,
                           arX, <<>>)
             ELSE ArResult(loop.heap, NoErr, loop.queries,
                           <<n_samples>> \o loop.preds[1].shape, TRUE, arX,
                           [i \in 1..n_samples |-> loop.preds[i].vec]) :
             loop \in {InfillLoop(cls, h, rt, ra, n_samples, 0, qs)}})
      ELSE ArResult(h, NoErr, qs, <<n_samples, NCols(arX)>>, FALSE, arX,
                    [i \in 1..n_samples |->
                       [j \in 1..NCols(arX) |->
                          Stat("ar_sample", 1, j, Col(arX, j))]]) :
      qs \in {<<Query("run_nps_model_ar", h[ra], h[ra], n_samples)>>}})

\* ConvNP.ar_sample(task, n_samples, X_target_AR, ar_subsample_factor) of a
\* model of class cls ("ConvCNP" or another ConvNP class); the caller's
\* task is reference 1 of the heap h
ar_sample(cls, h, n_samples, X_target_AR, ar_subsample_factor) ==
    Only({
      Only({
        IF cka.err # NoErr
        THEN ArResult(cka.heap, cka.err, <<>>, <<>>, FALSE,
                      a.heap[a.ref].X_t[1], <<>>)
        ELSE Only({
          IF ckt.err # NoErr
          THEN ArResult(ckt.heap, ckt.err, <<>>, <<>>, FALSE,
                        a.heap[a.ref].X_t[1], <<>>)
          ELSE ArDraw(cls, ckt.heap, ckt.ref, cka.ref, n_samples,
                      NeedsInfill(X_target_AR, ar_subsample_factor),
                      ckt.heap[cka.ref].X_t[1]) :
          ckt \in {check_task(cka.heap, 1)}}) :
        cka \in {check_task(a.heap, a.ref)}}) :
      a \in {ArTask(h, X_target_AR, ar_subsample_factor)}})

------------------------------------------------------------------------------
(* Defaults inferred from a task loader (deepsensor/model/defaults.py) *)

\* floating-point numbers are kept as exact fractions n / d with d > 0
Rat(n, d) == [n |-> n, d |-> d]

RatLeq(a, b) == a.n * b.d <= b.n * a.d

RatEq(a, b) == a.n * b.d = b.n * a.d

RatMul(a, b) == Rat(a.n * b.n, a.d * b.d)

\* 1 / a for a > 0
RatInv(a) == Rat(a.d, a.n)

\* max and min of Python, which return their first argument on a tie
RatMax(a, b) == IF RatLeq(b, a) THEN a ELSE b

RatMin(a, b) == IF RatLeq(a, b) THEN a ELSE b

\* np.mean([a, b])
RatMean(a, b) == Rat(a.n * b.d + b.n * a.d, 2 * a.d * b.d)

\* int(a) for a >= 0
RatInt(a) == a.n \div a.d

\* the place of a ppu that was not computed
NoPpu == 0 - 1

\* the upper bound gen_ppu puts on a point-based ppu
MaxPointPpu == 500

\* a gridded variable (xr.DataArray, xr.Dataset) with the mean spacing of
\* its x1 and x2 coordinates; a point-based variable (pd.DataFrame,
\* pd.Series) with the 5th percentile of its pairwise distances; a variable
\* of another type
Gridded(x1_res, x2_res) ==
    [kind |-> "gridded", x1_res |-> x1_res, x2_res |-> x2_res,
     quantile_distance |-> Rat(0, 1)]

PointBased(quantile_distance) ==
    [kind |-> "point", x1_res |-> Rat(0, 1), x2_res |-> Rat(0, 1),
     quantile_distance |-> quantile_distance]

UnknownVar ==
    [kind |-> "unknown", x1_res |-> Rat(0, 1), x2_res |-> Rat(0, 1),
     quantile_distance |-> Rat(0, 1)]

TaskLoader(context, target, aux_at_contexts) ==
    [context |-> context, target |-> target,
     aux_at_contexts |-> aux_at_contexts]

\* data_ppu = 1 / np.mean([x1_res, x2_res])
data_ppu(var) == RatInv(RatMean(var.x1_res, var.x2_res))

\* the loop of gen_ppu over the variables vs, from max_ppu so far
RECURSIVE gen_ppu_loop(_, _)
gen_ppu_loop(vs, max_ppu) ==
    IF vs = <<>> THEN [err |-> NoErr, max_ppu |-> max_ppu]
    ELSE IF Head(vs).kind = "gridded"
    THEN gen_ppu_loop(Tail(vs),
                      RatMax(max_ppu, RatMul(data_ppu(Head(vs)), Rat(12, 10))))
    ELSE IF Head(vs).kind = "point"
    THEN gen_ppu_loop(Tail(vs),
                      RatMin(RatMin(max_ppu,
                                    RatInv(Head(vs).quantile_distance)),
                             Rat(MaxPointPpu, 1)))
    ELSE [err |-> "ValueError", max_ppu |-> max_ppu]

\* gen_ppu(task_loader): int(max_ppu), or the error raised
gen_ppu(task_loader) ==
    Only({IF l.err # NoErr THEN [err |-> l.err, ret |-> NoPpu]
          ELSE [err |-> NoErr, ret |-> RatInt(l.max_ppu)] :
          l \in {gen_ppu_loop(task_loader.context \o task_loader.target,
                              Rat(0, 1))}})

\* gen_decoder_scale(model_ppu) = 1 / model_ppu
gen_decoder_scale(model_ppu) ==
    IF model_ppu = 0 THEN [err |-> "ZeroDivisionError", ret |-> None]
    ELSE [err |-> NoErr, ret |-> Rat(1, model_ppu)]

\* the encoder scale of one context variable
encoder_scale(model_ppu, var) ==
    IF var.kind = "gridded"
    THEN [err |-> NoErr, ret |-> RatMul(Rat(1, 2), RatMean(var.x1_res, var.x2_res))]
    ELSE IF var.kind = "point"
    THEN IF model_ppu = 0 THEN [err |-> "ZeroDivisionError", ret |-> None]
         ELSE [err |-> NoErr, ret |-> Rat(1, 2 * model_ppu)]
    ELSE [err |-> "ValueError", ret |-> None]

\* gen_encoder_scales(model_ppu, task_loader): one scale per context
\* variable and one more with aux_at_contexts; the first error raised wins
gen_encoder_scales(model_ppu, task_loader) ==
    LET per == [i \in DOMAIN task_loader.context |->
                  encoder_scale(model_ppu, task_loader.context[i])]
        bad == {i \in DOMAIN per : per[i].err # NoErr}
        aux == IF task_loader.aux_at_contexts
               THEN <<encoder_scale(model_ppu, PointBased(Rat(1, 1)))>>
               ELSE <<>>
    IN  IF bad # {}
        THEN [err |-> per[CHOOSE i \in bad : \A j \in bad : i <= j].err,
              ret |-> None]
        ELSE IF aux # <<>> /\ aux[1].err # NoErr
        THEN [err |-> aux[1].err, ret |-> None]
        ELSE [err |-> NoErr,
              ret |-> [i \in DOMAIN per |-> per[i].ret] \o
                      [i \in DOMAIN aux |-> aux[i].ret]]

\* ConvNP.__init__(task_loader) without keyword arguments: points_per_unit
\* and encoder_scales are inferred from the task loader
ConvNP_init(task_loader) ==
    Only({IF ppu.err # NoErr
          THEN [err |-> ppu.err, points_per_unit |-> NoPpu,
                encoder_scales |-> None]
          ELSE Only({[err |-> es.err, points_per_unit |-> ppu.ret,
                      encoder_scales |-> es.ret] :
                     es \in {gen_encoder_scales(ppu.ret, task_loader)}}) :
          ppu \in {gen_ppu(task_loader)}})

------------------------------------------------------------------------------
(* Inputs *)

\* n target locations in row-major order on a grid of width Isqrt(n)
GridX(n) ==
    LET W == Isqrt(n)
    IN  ndarray(<<[p \in 1..n |-> (p - 1) \div W],
                  [p \in 1..n |-> (p - 1) % W]>>)

\* M x M grids and target sets that are no perfect square
TargetSizes ==
    {M * M : M \in 1..MaxGrid} \cup {M * M + 1 : M \in 1..MaxGrid}

\* context set 0: n sensors on the line x2 = 1, no NaN
ContextX0(n) == ndarray(<<[j \in 1..n |-> j - 1], [j \in 1..n |-> 1]>>)
ContextY0(n) == ndarray(<<[j \in 1..n |-> 1 + (j % 2)]>>)

\* context set 1: n sensors on the line x1 = 2, the first possibly NaN
ContextX1(n) == ndarray(<<[j \in 1..n |-> 2], [j \in 1..n |-> j + 1]>>)
ContextY1(n, nan) ==
    ndarray(<<[j \in 1..n |-> IF nan /\ j = 1 THEN NaN ELSE 3]>>)

RawTasks ==
    {Task(<<ContextX0(n0), ContextX1(n1)>>,
          <<ContextY0(n0), ContextY1(n1, nan)>>,
          <<GridX(nt)>>, NoTag) :
       nt \in TargetSizes, n0 \in 0..MaxContext,
       n1 \in 0..MaxContext, nan \in {FALSE}} \cup
    {Task(<<ContextX0(n0), ContextX1(n1)>>,
          <<ContextY0(n0), ContextY1(n1, nan)>>,
          <<GridX(nt)>>, NoTag) :
       nt \in TargetSizes, n0 \in 0..MaxContext,
       n1 \in 1..MaxContext, nan \in {TRUE}}

\* tasks already in model-native form, and tasks tagged by something else
NPSTasks ==
    {modify_task(<<t>>, 1).heap[2] :
       t \in {u \in RawTasks : modify_task(<<u>>, 1).err = NoErr}}

OtherTasks == {[t EXCEPT !.modify = "other"] : t \in RawTasks}

Tasks == RawTasks \cup NPSTasks \cup OtherTasks

\* candidate sets: n candidates on the line x2 = layout
CandX(n, layout) ==
    ndarray(<<[j \in 1..n |-> j - 1 + layout], [j \in 1..n |-> layout]>>)

Candidates == {CandX(n, layout) : n \in 0..MaxCand, layout \in {0, 1}}

\* restrictions a caller may pass as X_target_AR for target set xt: none,
\* the full set, its first location, a location outside it, a matrix with
\* one coordinate row only
Restrictions(xt) ==
    {None, ndarray(xt.rows), ndarray(Take(xt, <<1>>).rows),
     ndarray(<<<<7>>, <<7>>>>), ndarray(<<<<0>>>>)}

IsAligned(X, xt) == NRows(X) = NRows(xt)

IsSubset(X, xt) == IsAligned(X, xt) /\ Cols(X) \subseteq Cols(xt)

Orders == VectorOrders \cup {"fro"}

Classes == {"ConvCNP", "ConvGNP"}

\* variables of a task loader: grids of spacing 0.01, of spacings 0.1 and
\* 0.25 and of spacing 0.5 in normalised coordinates, stations whose 5th
\* percentile distance is 0.001, 0.01 and 0.5, and a variable of a type
\* gen_ppu does not know
Variables ==
    {Gridded(Rat(1, 100), Rat(1, 100)), Gridded(Rat(1, 10), Rat(1, 4)),
     Gridded(Rat(1, 2), Rat(1, 2)),
     PointBased(Rat(1, 1000)), PointBased(Rat(1, 100)), PointBased(Rat(1, 2)),
     UnknownVar}

\* sequences of at most n variables
RECURSIVE VarLists(_)
VarLists(n) ==
    IF n = 0 THEN {<<>>}
    ELSE VarLists(n - 1) \cup
         {Append(l, v) : l \in {m \in VarLists(n - 1) : Len(m) = n - 1},
                         v \in Variables}

TaskLoaders ==
    {TaskLoader(c, t, a) :
       c \in VarLists(MaxVars), t \in VarLists(MaxVars), a \in BOOLEAN}

------------------------------------------------------------------------------
(* State *)

NoAcq ==
    [op |-> "none", X_s |-> CandX(0, 0), target_set_idx |-> 0,
     context_set_idx |-> 0, p |-> "1", seed |-> 0, pre |-> None,
     err |-> NoErr, queries |-> <<>>, shape |-> <<>>, out |-> <<>>,
     sym |-> <<>>, ei |-> NoEI]

\* the record of an acquisition call: its arguments, the caller's task as
\* deep-copied before the call, and the outcome
AcqCall(op, X_s, target_set_idx, context_set_idx, p, seed, res) ==
    [op |-> op, X_s |-> X_s, target_set_idx |-> target_set_idx,
     context_set_idx |-> context_set_idx, p |-> p, seed |-> seed,
     pre |-> task, err |-> res.err, queries |-> res.queries,
     shape |-> res.shape, out |-> res.out, sym |-> res.sym, ei |-> res.ei]

NoAr ==
    [op |-> "none", cls |-> "ConvCNP", n_samples |-> 0, X_target_AR |-> None,
     ar_subsample_factor |-> 1, pre |-> None, err |-> NoErr,
     queries |-> <<>>, shape |-> <<>>, infill |-> FALSE,
     arX |-> CandX(0, 0), out |-> <<>>]

ArCall(cls, n_samples, X_target_AR, ar_subsample_factor, res) ==
    [op |-> "ar_sample", cls |-> cls, n_samples |-> n_samples,
     X_target_AR |-> X_target_AR,
     ar_subsample_factor |-> ar_subsample_factor, pre |-> task,
     err |-> res.err, queries |-> res.queries, shape |-> res.shape,
     infill |-> res.infill, arX |-> res.arX, out |-> res.out]

\* a Random acquisition function: its seed, its generator's state, the
\* candidate counts asked of it so far and the score vectors it returned
Random_init(seed) ==
    [seed |-> seed, state |-> default_rng(seed), counts |-> <<>>,
     outs |-> <<>>]

NoRngs == <<Random_init(0), Random_init(0)>>

\* the construction of a ConvNP from a task loader: the loader, the
\* inferred settings and the error raised
NoConv ==
    [op |-> "none", task_loader |-> TaskLoader(<<>>, <<>>, FALSE),
     err |-> NoErr, points_per_unit |-> NoPpu, encoder_scales |-> None,
     decoder_scale |-> None]

------------------------------------------------------------------------------
(* Acquisition-function calls *)

Init ==
    /\ task \in RawTasks
    /\ acq = NoAcq
    /\ ar = NoAr
    /\ rngs = NoRngs
    /\ conv = NoConv

\* Calls are synchronous: the caller holds the outcome of at most one call
\* and drops it before it makes the next one.
Idle == acq.op = "none" /\ ar.op = "none"

Discard ==
    /\ ~Idle
    /\ acq' = NoAcq
    /\ ar' = NoAr
    /\ UNCHANGED <<task, rngs, conv>>

\* the call returns: the caller's object is what the heap holds for it
Returned(call, res) ==
    /\ Idle
    /\ task' = res.heap[1]
    /\ acq' = call
    /\ UNCHANGED <<ar, rngs, conv>>

CallMeanStddev ==
    \E i \in 0..MaxIdx :
        LET res == MeanStddev(<<task>>, 1, i)
        IN  Returned(AcqCall("MeanStddev", CandX(0, 0), i, 0, "1", 0, res), res)

CallMeanVariance ==
    \E i \in 0..MaxIdx :
        LET res == MeanVariance(<<task>>, 1, i)
        IN  Returned(AcqCall("MeanVariance", CandX(0, 0), i, 0, "1", 0, res), res)

CallpNormStddev ==
    \E i \in 0..MaxIdx, p \in Orders :
        LET res == pNormStddev(p, <<task>>, 1, i)
        IN  Returned(AcqCall("pNormStddev", CandX(0, 0), i, 0, p, 0, res), res)

CallMeanMarginalEntropy ==
    LET res == MeanMarginalEntropy(<<task>>, 1)
    IN  Returned(AcqCall("MeanMarginalEntropy", CandX(0, 0), 0, 0, "1", 0, res), res)

CallJointEntropy ==
    LET res == JointEntropy(<<task>>, 1)
    IN  Returned(AcqCall("JointEntropy", CandX(0, 0), 0, 0, "1", 0, res), res)

\* Random(seed)(task, X_s) on a newly constructed Random
CallRandom ==
    \E seed \in 0..MaxSeed, X_s \in Candidates :
        LET d == Random_call(default_rng(seed), task, X_s)
            res == AcqResult(<<task>>, NoErr, <<>>, <<Len(d.draws)>>,
                             d.draws, <<>>, NoEI)
        IN  Returned(AcqCall("Random", X_s, 0, 0, "1", seed, res), res)

CallContextDist ==
    \E c \in 0..MaxIdx, X_s \in Candidates :
        LET res == ContextDist(c, <<task>>, 1, X_s)
        IN  Returned(AcqCall("ContextDist", X_s, 0, c, "1", 0, res), res)

CallStddev ==
    \E i \in 0..MaxIdx, X_s \in Candidates :
        LET res == Stddev(<<task>>, 1, X_s, i)
        IN  Returned(AcqCall("Stddev", X_s, i, 0, "1", 0, res), res)

CallExpectedImprovement ==
    \E i \in 0..MaxIdx, c \in 0..MaxIdx, X_s \in Candidates :
        LET res == ExpectedImprovement(c, <<task>>, 1, X_s, i)
        IN  Returned(AcqCall("ExpectedImprovement", X_s, i, c, "1", 0, res), res)

Next ==
    \/ CallMeanStddev
    \/ CallMeanVariance
    \/ CallpNormStddev
    \/ CallMeanMarginalEntropy
    \/ CallJointEntropy
    \/ CallRandom
    \/ CallContextDist
    \/ CallStddev
    \/ CallExpectedImprovement
    \/ Discard

Spec == Init /\ [][Next]_vars

------------------------------------------------------------------------------
(* ar_sample calls *)

InitAR ==
    /\ task \in Tasks
    /\ acq = NoAcq
    /\ ar = NoAr
    /\ rngs = NoRngs
    /\ conv = NoConv

CallArSample ==
    \E cls \in Classes, n \in 0..MaxSamples, k \in 0..MaxFactor,
       X \in Restrictions(task.X_t[1]) :
        LET res == ar_sample(cls, <<task>>, n, X, k)
        IN  /\ Idle
            /\ task' = res.heap[1]
            /\ ar' = ArCall(cls, n, X, k, res)
            /\ UNCHANGED <<acq, rngs, conv>>

NextAR == CallArSample \/ Discard

SpecAR == InitAR /\ [][NextAR]_vars

------------------------------------------------------------------------------
(* Two Random acquisition functions, constructed independently *)

InitRandom ==
    /\ task \in {t \in RawTasks : NCols(t.X_t[1]) = 1 /\ NCols(t.X_c[2]) = 0}
    /\ acq = NoAcq
    /\ ar = NoAr
    /\ rngs \in {<<Random_init(a), Random_init(b)>> :
                   a \in 0..MaxSeed, b \in 0..MaxSeed}
    /\ conv = NoConv

\* instance i scores the candidate set X_s
CallRandomOn(i) ==
    \E X_s \in Candidates :
        LET d == Random_call(rngs[i].state, task, X_s)
        IN  /\ Len(rngs[i].counts) < MaxCalls
            /\ rngs' = [rngs EXCEPT ![i] =
                          [seed |-> @.seed, state |-> d.state,
                           counts |-> Append(@.counts, NCols(X_s)),
                           outs |-> Append(@.outs, d.draws)]]
            /\ UNCHANGED <<task, acq, ar, conv>>

NextRandom == CallRandomOn(1) \/ CallRandomOn(2)

SpecRandom == InitRandom /\ [][NextRandom]_vars

------------------------------------------------------------------------------
(* Construction of a ConvNP from a task loader *)

InitPpu ==
    /\ task = Task(<<>>, <<>>, <<>>, NoTag)
    /\ acq = NoAcq
    /\ ar = NoAr
    /\ rngs = NoRngs
    /\ conv \in {[NoConv EXCEPT !.task_loader = l] : l \in TaskLoaders}

\* ConvNP(task_loader)
CallConvNPInit ==
    /\ conv.op = "none"
    /\ \E res \in {ConvNP_init(conv.task_loader)} :
          conv' = [conv EXCEPT !.op = "init", !.err = res.err,
                               !.points_per_unit = res.points_per_unit,
                               !.encoder_scales = res.encoder_scales]
    /\ UNCHANGED <<task, acq, ar, rngs>>

\* gen_decoder_scale(ppu) on the ppu that gen_ppu returned
CallGenDecoderScale ==
    /\ conv.op = "init"
    /\ conv.points_per_unit # NoPpu
    /\ \E res \in {gen_decoder_scale(conv.points_per_unit)} :
          conv' = [conv EXCEPT !.op = "decoder",
                               !.err = IF res.err # NoErr THEN res.err ELSE @,
                               !.decoder_scale = res.ret]
    /\ UNCHANGED <<task, acq, ar, rngs>>

NextPpu == CallConvNPInit \/ CallGenDecoderScale

SpecPpu == InitPpu /\ [][NextPpu]_vars

------------------------------------------------------------------------------
(* Properties *)

ScalarOps ==
    {"MeanStddev", "MeanVariance", "pNormStddev", "MeanMarginalEntropy",
     "JointEntropy"}

ParallelOps == {"Random", "ContextDist", "Stddev", "ExpectedImprovement"}

\* the context set an acquisition call chose is empty
EmptyContextChosen ==
    /\ acq.context_set_idx + 1 <= Len(acq.pre.X_c)
    /\ Size(acq.pre.X_c[acq.context_set_idx + 1]) = 0

\* C1: after any acquisition-function call the caller's task has the context
\* locations, context values and target locations it had before the call,
\* and every model query of the call was handed a task whose context is the
\* caller's (Stddev and ExpectedImprovement install the candidates as the
\* target of a copy only).
C1_AcquisitionLeavesTask ==
    acq.op # "none" =>
        /\ task.X_c = acq.pre.X_c
        /\ task.Y_c = acq.pre.Y_c
        /\ task.X_t = acq.pre.X_t
        /\ \A q \in Range(acq.queries) :
              /\ q.arg.X_c = acq.pre.X_c
              /\ q.arg.Y_c = acq.pre.Y_c

\* a Stddev call that queried the model at candidates other than the task's
\* own target set
C1_Witness ==
    /\ acq.op = "Stddev"
    /\ acq.err = NoErr
    /\ Len(acq.queries) = 1
    /\ acq.queries[1].arg.X_t = <<acq.X_s>>
    /\ task.X_t # <<acq.X_s>>
    /\ NCols(acq.X_s) = 2
    /\ NCols(task.X_c[1]) > 0

\* C2: after ar_sample returns (normally or with an error) the caller's task
\* equals its pre-call deep copy: context locations and values (NaN entries
\* included), target locations and modification tag.
C2_ArSampleLeavesTask ==
    ar.op = "ar_sample" => task = ar.pre

\* an ar_sample call on an untagged task with a NaN context value that
\* narrowed the target set and infilled two paths
C2_Witness ==
    /\ ar.op = "ar_sample"
    /\ ar.err = NoErr
    /\ ar.infill
    /\ ar.n_samples = 2
    /\ Len(ar.queries) = 3
    /\ task.modify = NoTag
    /\ NaN \in Range(task.Y_c[2].rows[1])
    /\ NCols(ar.arX) < NCols(task.X_t[1])
    /\ ar.queries[1].task.modify = "NPS"
    /\ NCols(ar.queries[2].task.X_c[1]) > NCols(task.X_c[1])

\* exactly one maximal entry, at index 0, every other entry strictly lower
OneMaxAtZero(v) == Len(v) >= 1 /\ \A j \in 2..Len(v) : v[j] < v[1]

C4_RandomDeterminism ==
    \A i \in DOMAIN rngs, j \in DOMAIN rngs :
        (rngs[i].seed = rngs[j].seed /\ rngs[i].counts = rngs[j].counts)
            => rngs[i].outs = rngs[j].outs

\* both instances have the same seed and have each scored two candidates and
\* then one
C4_Witness ==
    /\ rngs[1].seed = rngs[2].seed
    /\ rngs[1].counts = <<2, 1>>
    /\ rngs[2].counts = <<2, 1>>
    /\ Len(rngs[1].outs[1]) = 2
    /\ rngs[1].outs = rngs[2].outs

\* C5: a parallel acquisition function returns a vector of exactly N scores
\* for N candidates, a scalar acquisition function a single number.
C5_Shapes ==
    /\ (acq.op \in ParallelOps /\ acq.err = NoErr)
          => acq.shape = <<NCols(acq.X_s)>>
    /\ (acq.op \in ScalarOps /\ acq.err = NoErr) => acq.shape = <<>>

------------------------------------------------------------------------------
(* Properties of ar_sample *)

\* the AR location subset is a strict subset of the task's full target set
StrictSubset(arX, xt) == Cols(arX) \subseteq Cols(xt) /\ Cols(arX) # Cols(xt)

\* C6: the infill step (extra model queries with an extended context) is
\* performed exactly when the AR subset is a strict subset of the full
\* target set; when the subset equals the full target set no infill query
\* is made.
C6_InfillIffStrictSubset ==
    (ar.op = "ar_sample" /\ ar.err = NoErr) =>
        /\ ar.infill <=> StrictSubset(ar.arX, ar.pre.X_t[1])
        /\ Len(ar.queries) > 1 => StrictSubset(ar.arX, ar.pre.X_t[1])

\* C7: with ar_subsample_factor = k > 1 and no restriction on an M x M target
\* grid, AR samples are drawn at exactly ceil(M/k)^2 locations and the result
\* has shape [n_samples, M*M], for both model classes.
C7_InfillShape ==
    LET n == NCols(ar.pre.X_t[1])
        M == Isqrt(n)
        k == ar.ar_subsample_factor
    IN  (/\ ar.op = "ar_sample"
         /\ ar.err = NoErr
         /\ ar.X_target_AR = None
         /\ k > 1
         /\ M * M = n)
        => /\ NCols(ar.arX) = CeilDiv(M, k) * CeilDiv(M, k)
           /\ ar.shape = <<ar.n_samples, n>>

\* the configuration of an ar_sample call is invalid
InvalidArConfig ==
    \/ ar.X_target_AR # None /\ ~IsSubset(ar.X_target_AR, ar.pre.X_t[1])
    \/ ar.ar_subsample_factor < 1
    \/ ar.n_samples < 1

\* C8: an ar_sample call with an invalid configuration ends in an error, and
\* no model query is made before it.
C8_FailFast ==
    (ar.op = "ar_sample" /\ InvalidArConfig) =>
        /\ ar.err # NoErr
        /\ Len(ar.queries) = 0

------------------------------------------------------------------------------
(* Properties of ExpectedImprovement *)

\* C9: ContextDist and ExpectedImprovement return a score and do not raise
\* when the chosen context set is empty (for a non-empty candidate set and an
\* index the model's result has).
C9_EmptyContextDefined ==
    (/\ acq.op \in {"ContextDist", "ExpectedImprovement"}
     /\ EmptyContextChosen
     /\ NCols(acq.X_s) >= 1
     /\ acq.target_set_idx < NCols(acq.X_s)
     /\ acq.context_set_idx < NCols(acq.X_s))
        => acq.err = NoErr

\* C10: ExpectedImprovement combines the predictive mean and the predictive
\* stddev that target_set_idx selects, both over the candidates, with
\* y* = the maximum of the values of the context set context_set_idx selects.
C10_EIOperands ==
    (acq.op = "ExpectedImprovement" /\ acq.err = NoErr) =>
        /\ acq.ei.mean.stat = "mean"
        /\ acq.ei.mean.j = acq.target_set_idx + 1
        /\ acq.ei.stddev.stat = "stddev"
        /\ acq.ei.stddev.j = acq.target_set_idx + 1
        /\ acq.ei.mean.x = acq.ei.stddev.x
        /\ acq.ei.best = ArrMax(acq.pre.Y_c[acq.context_set_idx + 1])

------------------------------------------------------------------------------
(* Properties of check_task *)

\* every array of the task carries the batch dimension of the model-native
\* form
IsNative(t) ==
    /\ \A i \in DOMAIN t.X_c : t.X_c[i].batch
    /\ \A i \in DOMAIN t.Y_c : t.Y_c[i].batch
    /\ \A i \in DOMAIN t.X_t : t.X_t[i].batch

\* check_task on the task an ar_sample call was given, and check_task on
\* what that returned
CheckedOnce == check_task(<<ar.pre>>, 1)
CheckedTwice == check_task(CheckedOnce.heap, CheckedOnce.ref)

\* C11: a task is transformed into model-native form at most once.  Where
\* check_task returns for an untagged task, it returns a new task tagged
\* "NPS" whose arrays are the transformed arrays; for a task tagged "NPS" it
\* returns that very task and creates nothing; check_task applied to its own
\* result changes nothing; for any other tag it raises ValueError.  Every
\* task that reached a model run of an ar_sample call is tagged "NPS", the
\* infill runs received their task as handed over, not transformed again,
\* and a call on a task with another tag raised with no model run.
C11_TransformedAtMostOnce ==
    ar.op = "ar_sample" =>
        /\ (ar.pre.modify = NoTag /\ CheckedOnce.err = NoErr) =>
              /\ CheckedOnce.ref = 2
              /\ Len(CheckedOnce.heap) = 2
              /\ CheckedOnce.heap[1] = ar.pre
              /\ CheckedOnce.heap[2].modify = "NPS"
              /\ IsNative(CheckedOnce.heap[2])
        /\ ar.pre.modify = "NPS" =>
              CheckedOnce = [heap |-> <<ar.pre>>, ref |-> 1, err |-> NoErr]
        /\ CheckedOnce.err = NoErr => CheckedTwice = CheckedOnce
        /\ ar.pre.modify \notin {NoTag, "NPS"} =>
              /\ CheckedOnce.err = "ValueError"
              /\ ar.err = "ValueError"
              /\ ar.queries = <<>>
        /\ \A q \in Range(ar.queries) :
              /\ q.task.modify = "NPS"
              /\ q.fn = "run_nps_model" => q.task = q.arg

\* an ar_sample call on an untagged task that was transformed once and whose
\* two infill runs received tasks already tagged "NPS"
C11_Witness ==
    /\ ar.op = "ar_sample"
    /\ ar.err = NoErr
    /\ ar.pre.modify = NoTag
    /\ CheckedOnce.ref = 2
    /\ CheckedTwice = CheckedOnce
    /\ Len(ar.queries) = 3
    /\ ar.queries[2].fn = "run_nps_model"
    /\ ar.queries[2].arg.modify = "NPS"

------------------------------------------------------------------------------
(* Properties of the AR subset selection *)

\* the column of xt (1-based) that column q (0-based) of the AR subset with
\* factor k is taken from: on an M x M grid the subset has ceil(M/k) columns
\* per grid row and takes grid position (k * (q div m), k * (q mod m)); on a
\* target set that is no perfect square it takes flattened position k * q
GridSource(M, k, q) ==
    (k * (q \div CeilDiv(M, k))) * M + k * (q % CeilDiv(M, k)) + 1

FlatSource(k, q) == k * q + 1

\* C12: the AR locations of an ar_sample call are a function of the target
\* set xt, X_target_AR and ar_subsample_factor = k.  With X_target_AR given
\* they are X_target_AR, whatever k is; else with k > 1 on M*M target
\* locations they are the ceil(M/k)^2 locations at the grid positions whose
\* row and column are both multiples of k, in grid order, every coordinate
\* row taken at the same positions; else with k > 1 they are the
\* ceil(N/k) locations whose flattened index is a multiple of k; else they
\* are the full target set.
C12_ArSubset ==
    LET xt == ar.pre.X_t[1]
        n == NCols(xt)
        M == Isqrt(n)
        k == ar.ar_subsample_factor
        X == ar.arX
    IN  ar.op = "ar_sample" =>
          IF ar.X_target_AR # None
          THEN X.rows = ar.X_target_AR.rows
          ELSE IF k > 1 /\ M * M = n
          THEN /\ NRows(X) = NRows(xt)
               /\ NCols(X) = CeilDiv(M, k) * CeilDiv(M, k)
               /\ \A r \in 1..NRows(X), q \in 0..(NCols(X) - 1) :
                     X.rows[r][q + 1] = xt.rows[r][GridSource(M, k, q)]
          ELSE IF k > 1
          THEN /\ NRows(X) = NRows(xt)
               /\ NCols(X) = CeilDiv(n, k)
               /\ \A r \in 1..NRows(X), q \in 0..(NCols(X) - 1) :
                     X.rows[r][q + 1] = xt.rows[r][FlatSource(k, q)]
          ELSE X.rows = xt.rows

\* a 3 x 3 target grid subsampled by 2: the four corners of the grid, in
\* grid order
C12_Witness ==
    /\ ar.op = "ar_sample"
    /\ ar.err = NoErr
    /\ ar.X_target_AR = None
    /\ ar.ar_subsample_factor = 2
    /\ NCols(ar.pre.X_t[1]) = 9
    /\ ar.arX.rows = <<<<0, 0, 2, 2>>, <<0, 2, 0, 2>>>>

------------------------------------------------------------------------------
(* Properties of the infill step *)

\* the caller's task in model-native form
NativePre == CheckedOnce.heap[CheckedOnce.ref]

\* a followed by b along the last axis
Extended(a, b) == [r \in 1..NRows(a) |-> a.rows[r] \o b.rows[r]]

\* C13: in an ar_sample call that infilled, there is one model run per path
\* after the AR run, in path order.  The run of path i received the caller's
\* full target set; its first context set is the caller's first context set
\* (locations and values) followed by the AR locations paired with the
\* values sampled for path i and nothing else; its other context sets are
\* the caller's.  Entry i of the output is the result of that run, one
\* value per target location of the full target set.
C13_InfillPerPath ==
    (ar.op = "ar_sample" /\ ar.err = NoErr /\ ar.infill) =>
        /\ Len(ar.out) = ar.n_samples
        /\ Len(ar.queries) = ar.n_samples + 1
        /\ ar.queries[1].fn = "run_nps_model_ar"
        /\ \A i \in 1..ar.n_samples :
              LET q == ar.queries[i + 1]
              IN  /\ q.fn = "run_nps_model"
                  /\ q.task.X_t = NativePre.X_t
                  /\ q.task.X_c[1].rows = Extended(NativePre.X_c[1], ar.arX)
                  /\ q.task.Y_c[1].rows =
                        Extended(NativePre.Y_c[1],
                                 SamplePath(i - 1, NCols(ar.arX)))
                  /\ Len(q.task.X_c) = Len(NativePre.X_c)
                  /\ Len(q.task.Y_c) = Len(NativePre.Y_c)
                  /\ \A s \in 2..Len(NativePre.X_c) :
                        /\ q.task.X_c[s] = NativePre.X_c[s]
                        /\ q.task.Y_c[s] = NativePre.Y_c[s]
                  /\ Len(ar.out[i]) = NCols(NativePre.X_t[1])
                  /\ \A j \in DOMAIN ar.out[i] :
                        /\ ar.out[i][j].q = i + 1
                        /\ ar.out[i][j].j = j
                        /\ ar.out[i][j].x = Col(NativePre.X_t[1], j)

\* two paths infilled over a 2 x 2 target grid from one AR location, on a
\* task with two sensors in its first context set: the second run holds the
\* second path's value and not the first path's
C13_Witness ==
    /\ ar.op = "ar_sample"
    /\ ar.err = NoErr
    /\ ar.infill
    /\ ar.n_samples = 2
    /\ NCols(ar.pre.X_t[1]) = 4
    /\ NCols(ar.arX) = 1
    /\ NCols(ar.pre.X_c[1]) = 2
    /\ ar.queries[3].task.Y_c[1].rows[1] =
          ar.pre.Y_c[1].rows[1] \o <<SampleValue(1, 1)>>
    /\ ar.out[2][4].q = 3

------------------------------------------------------------------------------
(* Properties of ContextDist *)

\* the context set an acquisition call chose has at least one point
NonEmptyContextChosen ==
    /\ acq.context_set_idx + 1 <= Len(acq.pre.X_c)
    /\ Size(acq.pre.X_c[acq.context_set_idx + 1]) > 0

\* locations at which one more sensor may be placed
ExtraSensors == {<<0, 0>>, <<2, 1>>, <<3, 3>>}

\* task t with one more point, at location x, in context set s (0-based)
AddSensor(t, s, x) ==
    [t EXCEPT !.X_c[s + 1] = Concat(@, ndarray(<<<<x[1]>>, <<x[2]>>>>)),
              !.Y_c[s + 1] = Concat(@, ndarray(<<<<3>>>>))]

\* C14: ContextDist on a non-empty chosen context set returns one score per
\* candidate, the distance from the candidate to its nearest context point:
\* the score is the distance to some context point and no context point is
\* nearer.  Hence no score is negative, a score is 0 exactly when the
\* candidate is at the location of a context point, and with one more
\* context point no candidate's score is higher.  (Scores are compared by
\* their radicands: the square root is increasing and is 0 only at 0.)
C14_NearestContextPoint ==
    LET X_c == acq.pre.X_c[acq.context_set_idx + 1]
        X_s == acq.X_s
    IN  (acq.op = "ContextDist" /\ NonEmptyContextChosen) =>
          /\ acq.err = NoErr
          /\ Len(acq.out) = NCols(X_s)
          /\ \A j \in 1..NCols(X_s) :
                /\ \E c \in 1..NCols(X_c) :
                      acq.out[j] = SqDist(Col(X_s, j), Col(X_c, c))
                /\ \A c \in 1..NCols(X_c) :
                      acq.out[j] <= SqDist(Col(X_s, j), Col(X_c, c))
                /\ acq.out[j] >= 0
                /\ acq.out[j] = 0 <=> Col(X_s, j) \in Cols(X_c)
                /\ \A x \in ExtraSensors :
                      ContextDist(acq.context_set_idx,
                                  <<AddSensor(acq.pre, acq.context_set_idx, x)>>,
                                  1, X_s).out[j] <= acq.out[j]

\* two candidates scored against two context points: the first candidate is
\* at a context point, the second at distance 1 from the nearest one and at
\* distance 2 from the other, and a sensor placed at the second candidate
\* lowers its score to 0
C14_Witness ==
    /\ acq.op = "ContextDist"
    /\ NonEmptyContextChosen
    /\ NCols(acq.pre.X_c[acq.context_set_idx + 1]) = 2
    /\ NCols(acq.X_s) = 2
    /\ acq.out = <<0, 1>>
    /\ Col(acq.X_s, 2) = <<2, 1>>
    /\ ContextDist(acq.context_set_idx,
                   <<AddSensor(acq.pre, acq.context_set_idx, <<2, 1>>)>>,
                   1, acq.X_s).out = <<0, 0>>

------------------------------------------------------------------------------
(* Properties of gen_ppu *)

\* the density the documentation gives for off-grid data
DocumentedPointPpu == 300

\* the variables gen_ppu looks at
LoaderVars == conv.task_loader.context \o conv.task_loader.target

\* the density a variable asks for: 300 for point-based data, 1.2 times the
\* data's points per unit for a grid
Requirement(var) ==
    IF var.kind = "point" THEN Rat(DocumentedPointPpu, 1)
    ELSE RatMul(data_ppu(var), Rat(12, 10))

LargestRequirement ==
    CHOOSE a \in {Requirement(v) : v \in Range(LoaderVars)} :
        \A v \in Range(LoaderVars) : RatLeq(Requirement(v), a)

\* C15: for a task loader with at least one variable, all gridded or
\* point-based, the construction raises no error; the inferred ppu is the
\* integer part of the largest requirement over the variables, 300 for a
\* point-based variable and 1.2 times the data's points per unit for a
\* gridded one; it is at least 1; gen_decoder_scale gives 1/ppu and every
\* point-based context variable gets the encoder scale 0.5/ppu.
C15_PpuDefault ==
    (/\ conv.op # "none"
     /\ LoaderVars # <<>>
     /\ \A v \in Range(LoaderVars) : v.kind # "unknown")
        => /\ conv.err = NoErr
           /\ conv.points_per_unit = RatInt(LargestRequirement)
           /\ conv.points_per_unit >= 1
           /\ conv.op = "decoder" =>
                 RatEq(conv.decoder_scale, Rat(1, conv.points_per_unit))
           /\ \A i \in DOMAIN conv.task_loader.context :
                 conv.task_loader.context[i].kind = "point" =>
                     RatEq(conv.encoder_scales[i],
                           Rat(1, 2 * conv.points_per_unit))

==============================================================================
